---- MODULE Spec2Model ----
(***************************************************************************)
(* Model of ecological.Config: the attribute-resolution pass (Config.load, *)
(* Variable.get), the type-coercion function (cast) and the autoload       *)
(* lifecycle (Config.__init_subclass__, Config.__init__, AutoConfig).      *)
(*                                                                         *)
(* Python strings that the code computes with (attribute names, prefixes,  *)
(* environment variable names) are sequences of one-character strings, so  *)
(* that f"{prefix}_{attribute_name}".upper() is computed, not assumed.     *)
(* Python values are records [t |-> type name, r |-> repr].                *)
(***************************************************************************)
EXTENDS Integers, Sequences, FiniteSets, Bags, TLC

\* Largest number of live instances of Configuration.
MaxInstances == 2

----------------------------------------------------------------------------
(* Python values                                                           *)

Val(t, r) == [t |-> t, r |-> r]

\* config.py:41  _NO_DEFAULT = object()
_NO_DEFAULT == Val("object", "_NO_DEFAULT")

PyNone == Val("NoneType", "None")

\* Result of a call: a returned value or a raised exception.  key is the
\* variable name the message of the exception quotes, cause the exception
\* that was being handled when it was raised.
Return(v) == [exc |-> "none", val |-> v, key |-> <<>>, cause |-> "none"]

Raise(e, k, c) == [exc |-> e, val |-> PyNone, key |-> k, cause |-> c]

----------------------------------------------------------------------------
(* str.upper()                                                             *)

LowerCase == <<"a","b","c","d","e","f","g","h","i","j","k","l","m",
               "n","o","p","q","r","s","t","u","v","w","x","y","z">>

UpperCase == <<"A","B","C","D","E","F","G","H","I","J","K","L","M",
               "N","O","P","Q","R","S","T","U","V","W","X","Y","Z">>

UpperChar(c) ==
    IF \E i \in 1..Len(LowerCase) : LowerCase[i] = c
    THEN UpperCase[CHOOSE i \in 1..Len(LowerCase) : LowerCase[i] = c]
    ELSE c

upper(s) == [i \in 1..Len(s) |-> UpperChar(s[i])]

----------------------------------------------------------------------------
(* Types and the builtins cast relies on                                   *)

\* Deepest chain of nested NewType aliases the coercion is tried on.
MaxAliasDepth == 3

\* The types aliases are declared over: the real types, a custom type with
\* a one-argument constructor, and the typing types.
AliasBases ==
    {"int", "float", "str", "bool", "list", "set", "tuple", "dict", "bytes",
     "frozenset", "Counter", "deque", "Custom",
     "typing.AnyStr", "typing.ByteString", "typing.Counter", "typing.Deque",
     "typing.Dict", "typing.FrozenSet", "typing.List", "typing.Set",
     "typing.Tuple", "typing.List[int]", "typing.Dict[str, str]",
     "typing.List[Id]"}

\* typing.NewType(name, tp): the alias declared over tp.
NewType(tp) == "NewType(" \o tp \o ")"

RECURSIVE Alias(_, _)
\* The alias at the end of a chain of n nested NewType over base.
Alias(base, n) == IF n = 0 THEN base ELSE NewType(Alias(base, n - 1))

\* typing.NewType aliases: the __supertype__ attribute.
SUPERTYPE ==
    [t \in {"Integer", "Id", "ListOfIntegers"}
           \cup {Alias(b, n) : b \in AliasBases, n \in 1..MaxAliasDepth} |->
        CASE t = "Integer" -> "int"
          [] t = "Id" -> "Integer"
          [] t = "ListOfIntegers" -> "typing.List[int]"
          [] OTHER ->
                CHOOSE tp \in {Alias(b, n) : b \in AliasBases,
                                             n \in 0..(MaxAliasDepth - 1)} :
                    t = NewType(tp)]

\* The list of parsed types with frozenset added to it.
TYPES_THAT_NEED_TO_BE_PARSED_AndFrozenset ==
    {"bool", "list", "set", "tuple", "dict", "frozenset"}

TYPES_THAT_NEED_TO_BE_PARSED == {"bool", "list", "set", "tuple", "dict"}

TYPING_TO_REGULAR_TYPE ==
    [t \in {"typing.AnyStr", "typing.ByteString", "typing.Counter",
            "typing.Deque", "typing.Dict", "typing.FrozenSet",
            "typing.List", "typing.Set", "typing.Tuple"} |->
        CASE t = "typing.AnyStr" -> "str"
          [] t = "typing.ByteString" -> "bytes"
          [] t = "typing.Counter" -> "Counter"
          [] t = "typing.Deque" -> "deque"
          [] t = "typing.Dict" -> "dict"
          [] t = "typing.FrozenSet" -> "frozenset"
          [] t = "typing.List" -> "list"
          [] t = "typing.Set" -> "set"
          [] t = "typing.Tuple" -> "tuple"]

\* __origin__ of the subscripted generics (Python >= 3.7).
ORIGIN ==
    [t \in {"typing.List[int]", "typing.Dict[str, str]", "typing.List[Id]"} |->
        CASE t = "typing.List[int]" -> "list"
          [] t = "typing.Dict[str, str]" -> "dict"
          [] t = "typing.List[Id]" -> "list"]

\* ast.literal_eval on the raw texts of the model.
literal_eval(text) ==
    CASE text = "42" -> Return(Val("int", "42"))
      [] text = "0" -> Return(Val("int", "0"))
      [] text = "True" -> Return(Val("bool", "True"))
      [] text = "False" -> Return(Val("bool", "False"))
      [] text = "[1, 2]" -> Return(Val("list", "[1, 2]"))
      [] text = "{'k': 'v'}" -> Return(Val("dict", "{'k': 'v'}"))
      [] text = "abc" -> Raise("ValueError", <<>>, "none")
      [] OTHER -> Raise("SyntaxError", <<>>, "none")

\* bool(v): truth value of a value.
Truthy(v) ==
    CASE v.t = "bool" -> v.r = "True"
      [] v.t = "int" -> v.r # "0"
      [] v.t = "str" -> v.r # ""
      [] v.t = "bytes" -> v.r # "b''"
      [] v.t \in {"list", "tuple", "set", "dict"} ->
            v.r \notin {"[]", "()", "set()", "{}"}
      [] v.t = "NoneType" -> FALSE
      [] OTHER -> TRUE

\* repr(v): a str is quoted, with double quotes when it holds a quote.
Repr(v) ==
    IF v.t # "str" THEN v.r
    ELSE IF v.r = "{'k': 'v'}" THEN "\"" \o v.r \o "\""
    ELSE "'" \o v.r \o "'"

\* repr of list(v), tuple(v), set(v), frozenset(v), deque(v) and
\* Counter(v) for the iterable values of the model (sets in sorted order).
ItemsAs(t, v) ==
    CASE
         v.t = "str" /\ v.r = "42" ->
           (CASE t = "list" -> "['4', '2']"
              [] t = "tuple" -> "('4', '2')"
              [] t = "set" -> "{'2', '4'}"
              [] t = "frozenset" -> "frozenset({'2', '4'})"
              [] t = "deque" -> "deque(['4', '2'])"
              [] t = "Counter" -> "Counter({'4': 1, '2': 1})")
      [] v.t = "str" /\ v.r = "0" ->
           (CASE t = "list" -> "['0']"
              [] t = "tuple" -> "('0',)"
              [] t = "set" -> "{'0'}"
              [] t = "frozenset" -> "frozenset({'0'})"
              [] t = "deque" -> "deque(['0'])"
              [] t = "Counter" -> "Counter({'0': 1})")
      [] v.t = "str" /\ v.r = "True" ->
           (CASE t = "list" -> "['T', 'r', 'u', 'e']"
              [] t = "tuple" -> "('T', 'r', 'u', 'e')"
              [] t = "set" -> "{'T', 'e', 'r', 'u'}"
              [] t = "frozenset" -> "frozenset({'T', 'e', 'r', 'u'})"
              [] t = "deque" -> "deque(['T', 'r', 'u', 'e'])"
              [] t = "Counter" -> "Counter({'T': 1, 'r': 1, 'u': 1, 'e': 1})")
      [] v.t = "str" /\ v.r = "False" ->
           (CASE t = "list" -> "['F', 'a', 'l', 's', 'e']"
              [] t = "tuple" -> "('F', 'a', 'l', 's', 'e')"
              [] t = "set" -> "{'F', 'a', 'e', 'l', 's'}"
              [] t = "frozenset" -> "frozenset({'F', 'a', 'e', 'l', 's'})"
              [] t = "deque" -> "deque(['F', 'a', 'l', 's', 'e'])"
              [] t = "Counter" -> "Counter({'F': 1, 'a': 1, 'l': 1, 's': 1, 'e': 1})")
      [] v.t = "str" /\ v.r = "[1, 2]" ->
           (CASE t = "list" -> "['[', '1', ',', ' ', '2', ']']"
              [] t = "tuple" -> "('[', '1', ',', ' ', '2', ']')"
              [] t = "set" -> "{' ', ',', '1', '2', '[', ']'}"
              [] t = "frozenset" -> "frozenset({' ', ',', '1', '2', '[', ']'})"
              [] t = "deque" -> "deque(['[', '1', ',', ' ', '2', ']'])"
              [] t = "Counter" -> "Counter({'[': 1, '1': 1, ',': 1, ' ': 1, '2': 1, ']': 1})")
      [] v.t = "str" /\ v.r = "{'k': 'v'}" ->
           (CASE t = "list" -> "['{', \"'\", 'k', \"'\", ':', ' ', \"'\", 'v', \"'\", '}']"
              [] t = "tuple" -> "('{', \"'\", 'k', \"'\", ':', ' ', \"'\", 'v', \"'\", '}')"
              [] t = "set" -> "{\"'\", ' ', ':', 'k', 'v', '{', '}'}"
              [] t = "frozenset" -> "frozenset({\"'\", ' ', ':', 'k', 'v', '{', '}'})"
              [] t = "deque" -> "deque(['{', \"'\", 'k', \"'\", ':', ' ', \"'\", 'v', \"'\", '}'])"
              [] t = "Counter" -> "Counter({\"'\": 4, '{': 1, 'k': 1, ':': 1, ' ': 1, 'v': 1, '}': 1})")
      [] v.t = "str" /\ v.r = "abc" ->
           (CASE t = "list" -> "['a', 'b', 'c']"
              [] t = "tuple" -> "('a', 'b', 'c')"
              [] t = "set" -> "{'a', 'b', 'c'}"
              [] t = "frozenset" -> "frozenset({'a', 'b', 'c'})"
              [] t = "deque" -> "deque(['a', 'b', 'c'])"
              [] t = "Counter" -> "Counter({'a': 1, 'b': 1, 'c': 1})")
      [] v.t = "str" /\ v.r = "not a list" ->
           (CASE t = "list" -> "['n', 'o', 't', ' ', 'a', ' ', 'l', 'i', 's', 't']"
              [] t = "tuple" -> "('n', 'o', 't', ' ', 'a', ' ', 'l', 'i', 's', 't')"
              [] t = "set" -> "{' ', 'a', 'i', 'l', 'n', 'o', 's', 't'}"
              [] t = "frozenset" -> "frozenset({' ', 'a', 'i', 'l', 'n', 'o', 's', 't'})"
              [] t = "deque" -> "deque(['n', 'o', 't', ' ', 'a', ' ', 'l', 'i', 's', 't'])"
              [] t = "Counter" -> "Counter({'t': 2, ' ': 2, 'n': 1, 'o': 1, 'a': 1, 'l': 1, 'i': 1, 's': 1})")
      [] v.t = "list" /\ v.r = "[1, 2]" ->
           (CASE t = "list" -> "[1, 2]"
              [] t = "tuple" -> "(1, 2)"
              [] t = "set" -> "{1, 2}"
              [] t = "frozenset" -> "frozenset({1, 2})"
              [] t = "deque" -> "deque([1, 2])"
              [] t = "Counter" -> "Counter({1: 1, 2: 1})")
      [] v.t = "dict" /\ v.r = "{'k': 'v'}" ->
           (CASE t = "list" -> "['k']"
              [] t = "tuple" -> "('k',)"
              [] t = "set" -> "{'k'}"
              [] t = "frozenset" -> "frozenset({'k'})"
              [] t = "deque" -> "deque(['k'])"
              [] t = "Counter" -> "Counter({'k': 'v'})")
      [] v.t = "bytes" /\ v.r = "b'42'" ->
           (CASE t = "list" -> "[52, 50]"
              [] t = "tuple" -> "(52, 50)"
              [] t = "set" -> "{50, 52}"
              [] t = "frozenset" -> "frozenset({50, 52})"
              [] t = "deque" -> "deque([52, 50])"
              [] t = "Counter" -> "Counter({52: 1, 50: 1})")
      [] OTHER -> v.r

\* wanted_type(value): the single-argument constructor of a real type.
Construct(t, v) ==
    CASE t = "str" ->
            Return(Val("str", v.r))
      [] t = "int" ->
           (CASE v.t = "str" ->
                    IF v.r \in {"42", "0"} THEN Return(Val("int", v.r))
                    ELSE Raise("ValueError", <<>>, "none")
              [] v.t = "int" -> Return(v)
              [] v.t = "bool" ->
                    Return(Val("int", IF v.r = "True" THEN "1" ELSE "0"))
              [] v.t = "bytes" /\ v.r = "b'42'" -> Return(Val("int", "42"))
              [] OTHER -> Raise("TypeError", <<>>, "none"))
      [] t = "float" ->
           (CASE v.t = "str" ->
                    IF v.r \in {"42", "0"}
                    THEN Return(Val("float", v.r \o ".0"))
                    ELSE Raise("ValueError", <<>>, "none")
              [] v.t = "int" -> Return(Val("float", v.r \o ".0"))
              [] v.t = "bool" ->
                    Return(Val("float", IF v.r = "True" THEN "1.0" ELSE "0.0"))
              [] v.t = "bytes" /\ v.r = "b'42'" -> Return(Val("float", "42.0"))
              [] OTHER -> Raise("TypeError", <<>>, "none"))
      [] t = "bool" ->
            Return(Val("bool", IF Truthy(v) THEN "True" ELSE "False"))
      [] t \in {"list", "tuple", "set", "frozenset", "deque"} ->
            IF v.t \in {"str", "list", "dict", "bytes"}
            THEN Return(Val(t, ItemsAs(t, v)))
            ELSE Raise("TypeError", <<>>, "none")
      [] t = "Counter" ->
           (CASE v.t \in {"str", "list", "dict", "bytes"} ->
                    Return(Val(t, ItemsAs(t, v)))
              [] v.t = "NoneType" -> Return(Val(t, "Counter()"))
              [] OTHER -> Raise("TypeError", <<>>, "none"))
      [] t = "dict" ->
           (CASE v.t = "dict" -> Return(v)
              [] v.t = "str" ->
                    IF v.r = "" THEN Return(Val("dict", "{}"))
                    ELSE Raise("ValueError", <<>>, "none")
              [] v.t = "list" /\ v.r = "[]" -> Return(Val("dict", "{}"))
              [] OTHER -> Raise("TypeError", <<>>, "none"))
      [] t = "bytes" ->
           (CASE v.t = "bytes" -> Return(v)
              [] v.t = "int" /\ v.r = "0" -> Return(Val("bytes", "b''"))
              [] v.t = "bool" ->
                    Return(Val("bytes", IF v.r = "True" THEN "b'\\x00'"
                                        ELSE "b''"))
              [] v.t = "list" /\ v.r = "[1, 2]" ->
                    Return(Val("bytes", "b'\\x01\\x02'"))
              [] OTHER ->
                    \* bytes(str) needs an encoding
                    Raise("TypeError", <<>>, "none"))
      [] t = "Custom" ->
            Return(Val("Custom", "Custom(" \o Repr(v) \o ")"))
      [] OTHER ->
            \* a NewType alias called on a value returns the value
            Return(v)

\* The unwrapping of cast with an if in place of the while.
UnwrapOnce(wanted_type) ==
    IF wanted_type \in DOMAIN SUPERTYPE
    THEN SUPERTYPE[wanted_type]
    ELSE wanted_type

RECURSIVE Unwrap(_)
\* while hasattr(wanted_type, "__supertype__"): wanted_type = ...
Unwrap(wanted_type) ==
    IF wanted_type \in DOMAIN SUPERTYPE
    THEN Unwrap(SUPERTYPE[wanted_type])
    ELSE wanted_type

RECURSIVE UnwrapSteps(_)
\* The number of iterations the while loop of cast makes.
UnwrapSteps(wanted_type) ==
    IF wanted_type \in DOMAIN SUPERTYPE
    THEN 1 + UnwrapSteps(SUPERTYPE[wanted_type])
    ELSE 0

_cast_typing_pep560(wanted_type) ==
    IF wanted_type \in DOMAIN TYPING_TO_REGULAR_TYPE
    THEN TYPING_TO_REGULAR_TYPE[wanted_type]
    ELSE IF wanted_type \in DOMAIN ORIGIN
         THEN ORIGIN[wanted_type]
         ELSE wanted_type

\* value = ast.literal_eval(representation) if isinstance(representation,
\* str) else representation, under the test of config.py:112; the
\* representation itself when the resolved type needs no parsing.
cast_value(representation, real) ==
    IF real \in TYPES_THAT_NEED_TO_BE_PARSED /\ representation.t = "str"
    THEN literal_eval(representation.r)
    ELSE Return(representation)

\* return wanted_type(value), with what cast did on the way: the iterations
\* of the unwrapping loop, the type it resolved, whether ast.literal_eval
\* was called, whether the constructor was called and on which value, and
\* the outcome.
cast_return(representation, wanted_type, real, value) ==
    [steps |-> UnwrapSteps(wanted_type), real |-> real,
     parsed |-> /\ real \in TYPES_THAT_NEED_TO_BE_PARSED
                /\ representation.t = "str",
     called |-> value.exc = "none", arg |-> value.val,
     out |-> IF value.exc # "none" THEN value
             ELSE Construct(real, value.val)]

\* cast from config.py:112 on, real being the type the first half resolved.
cast_resolved(representation, wanted_type, real) ==
    cast_return(representation, wanted_type, real,
                cast_value(representation, real))

\* cast, with what it did on the way.
cast_trace(representation, wanted_type) ==
    cast_resolved(representation, wanted_type,
                  _cast_typing_pep560(Unwrap(wanted_type)))

cast(representation, wanted_type) ==
    cast_trace(representation, wanted_type).out

----------------------------------------------------------------------------
(* Variable                                                                *)

\* Variable.__init__: transform defaults to cast, source to os.environ.
Variable(variable_name, default, transform, source) ==
    [name |-> variable_name, default |-> default,
     transform |-> transform, source |-> source]

\* The transform callables of the model: cast, and the
\* lambda v, wt: int(v) of the explicit descriptors.
Transform(transform, raw_value, wanted_type) ==
    IF transform = "cast" THEN cast(raw_value, wanted_type)
    ELSE Construct("int", raw_value)

\* except (ValueError, SyntaxError) as e: raise ValueError(...); any other
\* outcome of the transform is the outcome of get (config.py:171-176).
Variable_get_except(self, value) ==
    IF value.exc \in {"ValueError", "SyntaxError"}
    THEN Raise("ValueError", self.name, value.exc)
    ELSE value

Variable_get(self, wanted_type, env) ==
    IF self.name \notin DOMAIN env
    THEN IF self.default = _NO_DEFAULT
         THEN Raise("AttributeError", self.name, "KeyError")
         ELSE Return(self.default)
    ELSE Variable_get_except(self, Transform(self.transform, env[self.name],
                                             wanted_type))

----------------------------------------------------------------------------
(* The schemas under analysis                                              *)

Attr(name, value) == [name |-> name, value |-> value]

PrefixNone == [t |-> "NoneType", r |-> <<>>]

PrefixStr(s) == [t |-> "str", r |-> s]

\* The explicit descriptors the class bodies create.
DESCRIPTORS ==
    [d \in {"V1", "V2"} |->
        IF d = "V1"
        THEN Variable(<<"K", "1">>, _NO_DEFAULT, "int_of", "os.environ")
        ELSE Variable(<<"K", "4">>, PyNone, "cast", "os.environ")]

Programs == {"flat", "explicit", "nested"}

ClassNames == {"Nested", "Configuration"}

\* vars(cls) right after the class body has run, in definition order.
Body(prog, c) ==
    CASE c = "Nested" ->
            << Attr(<<"x">>, Val("list", "[]")) >>
      [] prog = "flat" ->
            << Attr(<<"_", "h">>, Val("str", "h")),
               Attr(<<"b">>, Val("bool", "False")) >>
      [] prog = "explicit" ->
            << Attr(<<"v">>, Val("Variable", "V1")),
               Attr(<<"w">>, Val("Variable", "V2")) >>
      [] OTHER ->
            << Attr(<<"N", "e", "s", "t", "e", "d">>, Val("type", "Nested")),
               Attr(<<"n", "o", "b", "j">>, Val("Nested", "object")) >>

\* cls.__annotations__, in definition order.
Annotations(prog, c) ==
    CASE c = "Nested" -> << Attr(<<"x">>, "bool") >>
      [] prog = "flat" -> << Attr(<<"a">>, "int"), Attr(<<"b">>, "bool") >>
      [] prog = "explicit" -> << Attr(<<"w">>, "list") >>
      [] OTHER -> << >>

\* The environment variables and texts the embedding program sets.
EnvKeys(prog) ==
    CASE prog = "flat" -> { <<"A">>, <<"B">>, <<"A","P","P","_","A">> }
      [] prog = "explicit" -> { <<"K","1">>, <<"K","4">>, <<"A","P","P","_","V">> }
      [] OTHER -> { <<"A","P","P","_","N","E","S","T","E","D">>,
                    <<"A","P","P","_","N","O","B","J">>,
                    <<"N","E","S","T","E","D","_","X">>,
                    <<"A","P","P","_","N","E","S","T","E","D","_","X">> }

EnvTexts(prog, k) ==
    CASE k = <<"A","P","P","_","A">> -> {"42"}
      [] prog = "flat" -> {"42", "False"}
      [] k = <<"K","4">> -> {"42", "[1, 2]"}
      [] k = <<"N","E","S","T","E","D","_","X">> -> {"False", "not a list"}
      [] prog = "explicit" -> {"42"}
      [] OTHER -> {"False"}

----------------------------------------------------------------------------
(* Config.load                                                             *)

HasAttr(attrs, name) == \E i \in 1..Len(attrs) : attrs[i].name = name

GetAttr(attrs, name) ==
    attrs[CHOOSE i \in 1..Len(attrs) : attrs[i].name = name].value

\* setattr(target_obj, attribute_name, value) on the target's __dict__
SetAttr(attrs, name, value) ==
    IF HasAttr(attrs, name)
    THEN [i \in 1..Len(attrs) |->
            IF attrs[i].name = name THEN Attr(name, value) ELSE attrs[i]]
    ELSE Append(attrs, Attr(name, value))

\* annotations.get(attribute_name, str)
AnnotationOf(annotations, name) ==
    IF HasAttr(annotations, name) THEN GetAttr(annotations, name) ELSE "str"

\* vars(cls).copy() updated with _NO_DEFAULT for the annotated names that
\* have no value (config.py:292-302)
AttributeDict(cls_vars, annotations) ==
    LET Missing(a) == ~HasAttr(cls_vars, a.name)
        injected == [i \in 1..Len(annotations) |->
                        Attr(annotations[i].name, _NO_DEFAULT)]
    IN cls_vars \o SelectSeq(injected, Missing)

\* isinstance(default_value, Config): an object whose type is a Config class
IsConfigInstance(value) == value.t \in ClassNames

\* AttributeOf that upper-cases the attribute name only, not the prefix.
AttributeOfNameUppered(prefix, item) ==
    IF item.value.t = "Variable"
    THEN DESCRIPTORS[item.value.r]
    ELSE IF prefix.t # "NoneType" /\ prefix.r # <<>>
         THEN Variable(prefix.r \o <<"_">> \o upper(item.name), item.value,
                       "cast", "os.environ")
         ELSE Variable(upper(item.name), item.value, "cast", "os.environ")

\* The Variable one iteration of the loop resolves (config.py:308-319).
AttributeOf(prefix, item) ==
    IF item.value.t = "Variable"
    THEN DESCRIPTORS[item.value.r]
    ELSE IF prefix.t # "NoneType" /\ prefix.r # <<>>
         THEN Variable(upper(prefix.r \o <<"_">> \o item.name), item.value,
                       "cast", "os.environ")
         ELSE Variable(upper(item.name), item.value, "cast", "os.environ")

\* What one resolved attribute leaves in the log of the pass.
LookupRecord(item, attribute, wanted_type, env, out) ==
    [attr |-> item.name, key |-> attribute.name,
     found |-> attribute.name \in DOMAIN env,
     transform |-> IF attribute.name \in DOMAIN env
                   THEN attribute.transform ELSE "none",
     source |-> attribute.source,
     wanted |-> wanted_type, default |-> attribute.default, out |-> out]

RECURSIVE load_itemsKeepGoing(_, _, _, _, _, _)
\* The loop of Config.load catching the error of a field and going on with
\* the next one; the pass ends with the last error.
load_itemsKeepGoing(i, attribute_dict, prefix, annotations, env, acc) ==
    IF i > Len(attribute_dict) THEN acc
    ELSE
    LET item == attribute_dict[i] IN
    IF item.name[1] = "_"
    THEN load_itemsKeepGoing(i + 1, attribute_dict, prefix, annotations, env,
                             acc)
    ELSE IF item.value.t # "Variable" /\ IsConfigInstance(item.value)
    THEN load_itemsKeepGoing(i + 1, attribute_dict, prefix, annotations, env,
            [acc EXCEPT !.attrs = SetAttr(acc.attrs, item.name, item.value)])
    ELSE
    LET attribute == AttributeOf(prefix, item)
        attribute_type == AnnotationOf(annotations, item.name)
        out == Variable_get(attribute, attribute_type, env)
        entry == LookupRecord(item, attribute, attribute_type, env, out)
    IN IF out.exc # "none"
       THEN load_itemsKeepGoing(i + 1, attribute_dict, prefix, annotations,
               env,
               [acc EXCEPT !.out = out,
                           !.lookups = Append(acc.lookups, entry)])
       ELSE load_itemsKeepGoing(i + 1, attribute_dict, prefix, annotations,
               env,
               [acc EXCEPT !.attrs = SetAttr(acc.attrs, item.name, out.val),
                           !.lookups = Append(acc.lookups, entry)])

RECURSIVE load_items(_, _, _, _, _, _)
\* The loop of Config.load from item i on; acc is the target's __dict__,
\* the outcome of the pass and its log so far.
load_items(i, attribute_dict, prefix, annotations, env, acc) ==
    IF i > Len(attribute_dict) THEN acc
    ELSE
    LET item == attribute_dict[i] IN
    IF item.name[1] = "_"
    THEN load_items(i + 1, attribute_dict, prefix, annotations, env, acc)
    ELSE IF item.value.t # "Variable" /\ IsConfigInstance(item.value)
    THEN load_items(i + 1, attribute_dict, prefix, annotations, env,
            [acc EXCEPT !.attrs = SetAttr(acc.attrs, item.name, item.value)])
    ELSE
    LET attribute == AttributeOf(prefix, item)
        attribute_type == AnnotationOf(annotations, item.name)
        out == Variable_get(attribute, attribute_type, env)
        entry == LookupRecord(item, attribute, attribute_type, env, out)
    IN IF out.exc # "none"
       THEN [acc EXCEPT !.out = out, !.lookups = Append(acc.lookups, entry)]
       ELSE load_items(i + 1, attribute_dict, prefix, annotations, env,
               [acc EXCEPT !.attrs = SetAttr(acc.attrs, item.name, out.val),
                           !.lookups = Append(acc.lookups, entry)])

\* Config.load(target_obj): cls_vars is vars(cls), target the __dict__ of
\* target_obj or cls.
load(cls_vars, prefix, annotations, target, env) ==
    load_items(1, AttributeDict(cls_vars, annotations), prefix, annotations,
               env, [attrs |-> target, out |-> Return(PyNone), lookups |-> <<>>])

----------------------------------------------------------------------------
(* Options and the lifecycle                                               *)

OptionsName == <<"_", "o", "p", "t", "i", "o", "n", "s">>

\* get_type_hints(cls): the annotations of Config (config.py:255) and then
\* those of the class.
TypeHints(prog, c) ==
    << Attr(OptionsName, "_Options") >> \o Annotations(prog, c)

\* _Options() with no argument (config.py:201-202)
DefaultOptions == [prefix |-> PrefixNone, autoload |-> "CLASS"]

\* Keyword arguments of a class statement: prefix (PrefixNone when not
\* given), autoload ("None" when not given) and the set of other names.
Kwargs(prefix, autoload, extra) ==
    [prefix |-> prefix, autoload |-> autoload, extra |-> extra]

\* _Options.from_metaclass_kwargs: the known names are popped, a None
\* value keeps the default; leftover is what stays in metaclass_kwargs.
from_metaclass_kwargs(kw) ==
    [options |-> [prefix |-> IF kw.prefix.t = "NoneType"
                             THEN DefaultOptions.prefix ELSE kw.prefix,
                  autoload |-> IF kw.autoload = "None"
                               THEN DefaultOptions.autoload ELSE kw.autoload],
     leftover |-> kw.extra]

Undeclared ==
    [declared |-> FALSE, options |-> DefaultOptions,
     vars |-> <<>>]

\* What the last call of the embedding program did: the outcome, the
\* number of resolution passes it ran, the target of the call (0 the class,
\* 1 an instance, -1 none), its __dict__ before and after the call, the
\* options in effect, the log of the pass, and whether a DeprecationWarning
\* was emitted.
Idle ==
    [op |-> "none", cls |-> "none", base |-> "none",
     kwargs |-> Kwargs(PrefixNone, "None", {}), options |-> DefaultOptions,
     target |-> -1, before |-> <<>>, attrs |-> <<>>,
     out |-> Return(PyNone), passes |-> 0,
     warned |-> FALSE, lookups |-> <<>>]

\* Config.__init_subclass__ that loads unless the mode is Autoload.OBJECT.
Config__init_subclass__UnlessObject(prog, c, kw, env, report) ==
    LET parsed == from_metaclass_kwargs(kw)
        options == parsed.options
        cls_vars == SetAttr(Body(prog, c), OptionsName,
                            Val("_Options", "options"))
        pass == load(cls_vars, options.prefix, TypeHints(prog, c),
                     cls_vars, env)
        rep == [report EXCEPT !.options = options]
    IN IF parsed.leftover # {}
       THEN [cls |-> Undeclared,
             report |-> [rep EXCEPT
                            !.out = Raise("TypeError", <<>>, "none")]]
       ELSE IF options.autoload # "OBJECT"
       THEN [cls |-> IF pass.out.exc # "none" THEN Undeclared
                     ELSE [declared |-> TRUE,
                           options |-> options, vars |-> pass.attrs],
             report |-> [rep EXCEPT !.out = pass.out, !.passes = 1,
                                    !.target = 0, !.before = cls_vars,
                                    !.attrs = pass.attrs,
                                    !.lookups = pass.lookups]]
       ELSE [cls |-> [declared |-> TRUE,
                      options |-> options, vars |-> cls_vars],
             report |-> rep]

\* Config.__init_subclass__(cls, **kwargs) for class c of the program:
\* the class that results (Undeclared when the class statement raises)
\* and the report of the call.
Config__init_subclass__(prog, c, kw, env, report) ==
    LET parsed == from_metaclass_kwargs(kw)
        options == parsed.options
        cls_vars == SetAttr(Body(prog, c), OptionsName,
                            Val("_Options", "options"))
        pass == load(cls_vars, options.prefix, TypeHints(prog, c),
                     cls_vars, env)
        rep == [report EXCEPT !.options = options]
    IN IF parsed.leftover # {}
       THEN \* object.__init_subclass__() takes no keyword arguments
            [cls |-> Undeclared,
             report |-> [rep EXCEPT
                            !.out = Raise("TypeError", <<>>, "none")]]
       ELSE IF options.autoload = "CLASS"
       THEN [cls |-> IF pass.out.exc # "none" THEN Undeclared
                     ELSE [declared |-> TRUE,
                           options |-> options, vars |-> pass.attrs],
             report |-> [rep EXCEPT !.out = pass.out, !.passes = 1,
                                    !.target = 0, !.before = cls_vars,
                                    !.attrs = pass.attrs,
                                    !.lookups = pass.lookups]]
       ELSE [cls |-> [declared |-> TRUE,
                      options |-> options, vars |-> cls_vars],
             report |-> rep]

\* AutoConfig.__init_subclass__ that forwards the caller's autoload.
AutoConfig__init_subclass__Forwarding(prog, c, kw, env, report) ==
    Config__init_subclass__(prog, c, Kwargs(kw.prefix, kw.autoload, {}), env,
                            [report EXCEPT !.warned = TRUE])

\* AutoConfig.__init_subclass__(cls, prefix=None, **kwargs): warns, then
\* calls Config.__init_subclass__(prefix=prefix, autoload=Autoload.CLASS).
AutoConfig__init_subclass__(prog, c, kw, env, report) ==
    Config__init_subclass__(prog, c, Kwargs(kw.prefix, "CLASS", {}), env,
                            [report EXCEPT !.warned = TRUE])

----------------------------------------------------------------------------
(* State                                                                   *)

VARIABLES
    program,    \* which class bodies the embedding program declares
    environ,    \* os.environ
    classes,    \* the Config classes: options and vars(cls)
    instances,  \* bag of the __dict__ of the live instances of Configuration
    last,       \* report of the last call
    call,       \* the last direct call of cast: arguments and what it did
    running     \* the pass of Config.load that is in progress, if any

vars == <<program, environ, classes, instances, last, call, running>>

\* Largest number of writes the threads of the program make to os.environ.
MaxWrites == 2

\* os.environ with no variable set.
EmptyEnviron == [k \in {} |-> Val("str", "")]

\* No pass is in progress.  A pass in progress has the locals of
\* Config.load: attribute_dict, prefix, annotations, the index i of the
\* next item of the loop and, in acc, the __dict__ of target_obj, the
\* outcome and the log so far; start is os.environ as it was when the pass
\* began.  seen is every content os.environ has had when threads write to
\* it, writes how many times they wrote.
NotRunning ==
    [active |-> FALSE, i |-> 0, attribute_dict |-> <<>>,
     prefix |-> PrefixNone, annotations |-> <<>>,
     acc |-> [attrs |-> <<>>, out |-> Return(PyNone), lookups |-> <<>>],
     start |-> EmptyEnviron, seen |-> {EmptyEnviron}, writes |-> 0]

\* No direct call of cast has been made.
NoCall ==
    [representation |-> PyNone, base |-> "none", depth |-> 0,
     wanted_type |-> "none", trace |-> cast_trace(PyNone, "str")]

Prefixes == {PrefixNone, PrefixStr(<<>>), PrefixStr(<<"a", "p", "p">>)}

AutoloadArgs == {"None", "CLASS", "OBJECT", "NEVER"}

\* The other keyword arguments a class statement may carry: none, a name
\* no version of the library knows, transform=lambda *args: ... and
\* source=my_dict (test_config.py:218-246).
ExtraArgs == {{}, {"bogus"}, {"transform"}, {"source"}}

\* The class statements the program may execute for class c.  The empty
\* prefix is tried with the defaults of everything else only.
Statements(c) ==
    IF c = "Nested"
    THEN {[base |-> "AutoConfig",
           kwargs |-> Kwargs(PrefixStr(<<"n","e","s","t","e","d">>), "None", {})]}
    ELSE {st \in {[base |-> b, kwargs |-> Kwargs(p, a, e)] :
                    b \in {"Config", "AutoConfig"}, p \in Prefixes,
                    a \in AutoloadArgs, e \in ExtraArgs} :
            st.kwargs.prefix = PrefixStr(<<>>) =>
                /\ st.base = "Config"
                /\ st.kwargs.autoload = "None"
                /\ st.kwargs.extra = {}}

Init ==
    /\ program \in Programs
    /\ environ = EmptyEnviron
    /\ classes = [c \in ClassNames |-> Undeclared]
    /\ instances = EmptyBag
    /\ last = Idle
    /\ call = NoCall
    /\ running = NotRunning

\* monkeypatch.setenv(k, text): os.environ[k] = text
setenv(k, text) ==
    /\ environ' = [j \in DOMAIN environ \cup {k} |->
                     IF j = k THEN Val("str", text) ELSE environ[j]]
    /\ last' = Idle
    /\ UNCHANGED <<program, classes, instances>>

\* monkeypatch.delenv(k): del os.environ[k]
delenv(k) ==
    /\ k \in DOMAIN environ
    /\ environ' = [j \in DOMAIN environ \ {k} |-> environ[j]]
    /\ last' = Idle
    /\ UNCHANGED <<program, classes, instances>>

\* class c(base, **kwargs): ...   The body of Configuration in the nested
\* program refers to Nested, which has to exist.
Declare(c, st) ==
    /\ ~classes[c].declared
    /\ c = "Nested" => program = "nested"
    /\ (c = "Configuration" /\ program = "nested") => classes["Nested"].declared
    /\ LET report == [Idle EXCEPT !.op = "declare", !.cls = c,
                                  !.base = st.base, !.kwargs = st.kwargs]
           r == IF st.base = "AutoConfig"
                THEN AutoConfig__init_subclass__(program, c, st.kwargs,
                                                 environ, report)
                ELSE Config__init_subclass__(program, c, st.kwargs,
                                             environ, report)
       IN /\ classes' = [classes EXCEPT ![c] = r.cls]
          /\ last' = r.report
    /\ UNCHANGED <<program, environ, instances>>

\* Config.__init__ that calls cls.load() instead of cls.load(self).
Config__init__OntoClass ==
    LET cls == classes["Configuration"]
        report == [Idle EXCEPT !.op = "construct", !.cls = "Configuration",
                               !.options = cls.options]
        pass == load(cls.vars, cls.options.prefix,
                     TypeHints(program, "Configuration"), cls.vars, environ)
    IN /\ cls.declared
       /\ BagCardinality(instances) < MaxInstances
       /\ IF cls.options.autoload = "OBJECT"
          THEN /\ instances' = IF pass.out.exc = "none"
                               THEN instances (+) SetToBag({<<>>})
                               ELSE instances
               /\ classes' = [classes EXCEPT
                                 !["Configuration"].vars = pass.attrs]
               /\ last' = [report EXCEPT !.out = pass.out, !.passes = 1,
                              !.target = IF pass.out.exc = "none"
                                         THEN 1 ELSE -1,
                              !.attrs = <<>>,
                              !.lookups = pass.lookups]
          ELSE /\ instances' = instances (+) SetToBag({<<>>})
               /\ classes' = classes
               /\ last' = [report EXCEPT !.target = 1]
       /\ UNCHANGED <<program, environ>>

\* Config.__init__ that loads unless the mode is Autoload.NEVER.
Config__init__UnlessNever ==
    LET cls == classes["Configuration"]
        report == [Idle EXCEPT !.op = "construct", !.cls = "Configuration",
                               !.options = cls.options]
        pass == load(cls.vars, cls.options.prefix,
                     TypeHints(program, "Configuration"), <<>>, environ)
    IN /\ cls.declared
       /\ BagCardinality(instances) < MaxInstances
       /\ IF cls.options.autoload # "NEVER"
          THEN /\ instances' = IF pass.out.exc = "none"
                               THEN instances (+) SetToBag({pass.attrs})
                               ELSE instances
               /\ last' = [report EXCEPT !.out = pass.out, !.passes = 1,
                              !.target = IF pass.out.exc = "none"
                                         THEN 1 ELSE -1,
                              !.attrs = pass.attrs,
                              !.lookups = pass.lookups]
          ELSE /\ instances' = instances (+) SetToBag({<<>>})
               /\ last' = [report EXCEPT !.target = 1]
       /\ UNCHANGED <<program, environ, classes>>

\* Configuration(): Config.__init__ loads onto the new object under
\* Autoload.OBJECT; an exception leaves no object behind.
Config__init__ ==
    LET cls == classes["Configuration"]
        report == [Idle EXCEPT !.op = "construct", !.cls = "Configuration",
                               !.options = cls.options]
        pass == load(cls.vars, cls.options.prefix,
                     TypeHints(program, "Configuration"), <<>>, environ)
    IN /\ cls.declared
       /\ BagCardinality(instances) < MaxInstances
       /\ IF cls.options.autoload = "OBJECT"
          THEN /\ instances' = IF pass.out.exc = "none"
                               THEN instances (+) SetToBag({pass.attrs})
                               ELSE instances
               /\ last' = [report EXCEPT !.out = pass.out, !.passes = 1,
                              !.target = IF pass.out.exc = "none"
                                         THEN 1 ELSE -1,
                              !.attrs = pass.attrs,
                              !.lookups = pass.lookups]
          ELSE /\ instances' = instances (+) SetToBag({<<>>})
               /\ last' = [report EXCEPT !.target = 1]
       /\ UNCHANGED <<program, environ, classes>>

\* Configuration.load() or Configuration.load(Configuration)
LoadClass ==
    LET cls == classes["Configuration"]
        pass == load(cls.vars, cls.options.prefix,
                     TypeHints(program, "Configuration"), cls.vars, environ)
    IN /\ cls.declared
       /\ classes' = [classes EXCEPT !["Configuration"].vars = pass.attrs]
       /\ last' = [Idle EXCEPT !.op = "load", !.cls = "Configuration",
                               !.options = cls.options,
                               !.target = 0,
                               !.before = cls.vars,
                               !.attrs = pass.attrs,
                               !.out = pass.out, !.passes = 1,
                               !.lookups = pass.lookups]
       /\ UNCHANGED <<program, environ, instances>>

\* Configuration.load(obj) that puts obj back as it was when the pass fails.
LoadObjectRestoring(d) ==
    LET cls == classes["Configuration"]
        pass == load(cls.vars, cls.options.prefix,
                     TypeHints(program, "Configuration"), d, environ)
        after == IF pass.out.exc = "none" THEN pass.attrs ELSE d
    IN /\ cls.declared
       /\ cls.options.autoload = "NEVER"
       /\ BagIn(d, instances)
       /\ instances' = (instances (-) SetToBag({d})) (+) SetToBag({after})
       /\ last' = [Idle EXCEPT !.op = "load", !.cls = "Configuration",
                               !.options = cls.options,
                               !.target = 1,
                               !.before = d,
                               !.attrs = after,
                               !.out = pass.out, !.passes = 1,
                               !.lookups = pass.lookups]
       /\ UNCHANGED <<program, environ, classes>>

\* Configuration.load(obj) for a live instance obj whose __dict__ is d.
\* The program loads onto an instance under Autoload.NEVER, the mode made
\* for explicit loads; Config.load itself does not look at the mode.
LoadObject(d) ==
    LET cls == classes["Configuration"]
        pass == load(cls.vars, cls.options.prefix,
                     TypeHints(program, "Configuration"), d, environ)
    IN /\ cls.declared
       /\ cls.options.autoload = "NEVER"
       /\ BagIn(d, instances)
       /\ instances' = (instances (-) SetToBag({d})) (+) SetToBag({pass.attrs})
       /\ last' = [Idle EXCEPT !.op = "load", !.cls = "Configuration",
                               !.options = cls.options,
                               !.target = 1,
                               !.before = d,
                               !.attrs = pass.attrs,
                               !.out = pass.out, !.passes = 1,
                               !.lookups = pass.lookups]
       /\ UNCHANGED <<program, environ, classes>>

\* The embedding program declares, constructs and loads; cast is reached
\* through Variable.get only.
Next ==
    \/ \E k \in EnvKeys(program) : \E text \in EnvTexts(program, k) :
          setenv(k, text) /\ UNCHANGED <<call, running>>
    \/ \E k \in EnvKeys(program) :
          delenv(k) /\ UNCHANGED <<call, running>>
    \/ \E c \in ClassNames : \E st \in Statements(c) :
          Declare(c, st) /\ UNCHANGED <<call, running>>
    \/ Config__init__ /\ UNCHANGED <<call, running>>
    \/ LoadClass /\ UNCHANGED <<call, running>>
    \/ \E d \in BagToSet(instances) :
          LoadObject(d) /\ UNCHANGED <<call, running>>

Spec == Init /\ [][Next]_vars

----------------------------------------------------------------------------
(* cast called directly                                                    *)

\* The raw values cast is tried on: texts, and values that are not text.
Representations ==
    {Val("str", text) :
        text \in {"42", "0", "True", "False", "[1, 2]", "{'k': 'v'}",
                  "abc", "not a list"}}
    \cup {Val("int", "0"), Val("bool", "True"), Val("list", "[1, 2]"),
          Val("dict", "{'k': 'v'}"), Val("bytes", "b'42'"), PyNone}

\* cast(representation, wanted_type) where wanted_type is the alias at the
\* end of a chain of depth nested NewType over base.  cast keeps no state:
\* one call per run covers every call.
CastCall(representation, base, depth) ==
    /\ call = NoCall
    /\ call' = [representation |-> representation, base |-> base,
                depth |-> depth, wanted_type |-> Alias(base, depth),
                trace |-> cast_trace(representation, Alias(base, depth))]
    /\ UNCHANGED <<program, environ, classes, instances, last, running>>

NextCast ==
    \E representation \in Representations, base \in AliasBases,
       depth \in 0..MaxAliasDepth :
        CastCall(representation, base, depth)

SpecCast == Init /\ [][NextCast]_vars

----------------------------------------------------------------------------
(* A pass running while another thread writes to os.environ                *)

\* Configuration() under Autoload.OBJECT enters Config.load(self): the
\* code before the loop (config.py:290-302).
BeginLoad ==
    LET cls == classes["Configuration"] IN
    /\ ~running.active
    /\ cls.declared
    /\ cls.options.autoload = "OBJECT"
    /\ BagCardinality(instances) < MaxInstances
    /\ running' =
          [running EXCEPT
              !.active = TRUE, !.i = 1,
              !.attribute_dict =
                  AttributeDict(cls.vars, TypeHints(program, "Configuration")),
              !.prefix = cls.options.prefix,
              !.annotations = TypeHints(program, "Configuration"),
              !.acc = [attrs |-> <<>>, out |-> Return(PyNone),
                       lookups |-> <<>>],
              !.start = environ]
    /\ last' = Idle
    /\ UNCHANGED <<program, environ, classes, instances, call>>

\* One iteration of the loop that reads os.environ as it was when the pass
\* began.
LoadStepFromSnapshot ==
    /\ running.active
    /\ running.i <= Len(running.attribute_dict)
    /\ running.acc.out.exc = "none"
    /\ running' =
          [running EXCEPT
              !.i = @ + 1,
              !.acc = load_items(1, <<running.attribute_dict[running.i]>>,
                                 running.prefix, running.annotations,
                                 running.start, running.acc)]
    /\ UNCHANGED <<program, environ, classes, instances, last, call>>

\* One iteration of the loop of Config.load (config.py:304-325): item i is
\* resolved against os.environ as it is now.
LoadStep ==
    /\ running.active
    /\ running.i <= Len(running.attribute_dict)
    /\ running.acc.out.exc = "none"
    /\ running' =
          [running EXCEPT
              !.i = @ + 1,
              !.acc = load_items(1, <<running.attribute_dict[running.i]>>,
                                 running.prefix, running.annotations,
                                 environ, running.acc)]
    /\ UNCHANGED <<program, environ, classes, instances, last, call>>

\* The loop is over or a field raised: Configuration() returns the
\* instance or raises.
EndLoad ==
    LET pass == running.acc IN
    /\ running.active
    /\ \/ running.i > Len(running.attribute_dict)
       \/ pass.out.exc # "none"
    /\ instances' = IF pass.out.exc = "none"
                    THEN instances (+) SetToBag({pass.attrs})
                    ELSE instances
    /\ last' = [Idle EXCEPT !.op = "construct", !.cls = "Configuration",
                            !.options = classes["Configuration"].options,
                            !.out = pass.out, !.passes = 1,
                            !.target = IF pass.out.exc = "none"
                                       THEN 1 ELSE -1,
                            !.attrs = pass.attrs,
                            !.lookups = pass.lookups]
    /\ running' = [NotRunning EXCEPT !.seen = running.seen,
                                     !.writes = running.writes]
    /\ UNCHANGED <<program, environ, classes, call>>

\* A thread of the program runs os.environ[k] = text, before, during or
\* after a pass.
ThreadSetenv(k, text) ==
    /\ running.writes < MaxWrites
    /\ setenv(k, text)
    /\ running' = [running EXCEPT !.seen = @ \cup {environ'},
                                  !.writes = @ + 1]
    /\ UNCHANGED call

\* A thread of the program runs del os.environ[k].
ThreadDelenv(k) ==
    /\ running.writes < MaxWrites
    /\ delenv(k)
    /\ running' = [running EXCEPT !.seen = @ \cup {environ'},
                                  !.writes = @ + 1]
    /\ UNCHANGED call

\* The class statements of the threaded program: Configuration under
\* Autoload.OBJECT, Nested as the nested program declares it.
ThreadedStatements(c) ==
    {st \in Statements(c) :
        c = "Configuration" =>
            /\ st.base = "Config"
            /\ st.kwargs.autoload = "OBJECT"
            /\ st.kwargs.extra = {}}

NextThreads ==
    \/ \E k \in EnvKeys(program) :
          \E text \in EnvTexts(program, k) : ThreadSetenv(k, text)
    \/ \E k \in EnvKeys(program) : ThreadDelenv(k)
    \/ /\ ~running.active
       /\ \E c \in ClassNames :
             \E st \in ThreadedStatements(c) : Declare(c, st)
       /\ UNCHANGED <<call, running>>
    \/ BeginLoad
    \/ LoadStep
    \/ EndLoad

SpecThreads == Init /\ [][NextThreads]_vars

----------------------------------------------------------------------------
(* The schema as declared, for stating the properties                      *)

\* The attributes of class c as its class statement declares them, with
\* _NO_DEFAULT for the annotated names that have no value.
DeclaredItems(c) ==
    AttributeDict(SetAttr(Body(program, c), OptionsName,
                          Val("_Options", "options")),
                  TypeHints(program, c))

IsPublic(item) == item.name[1] # "_"

\* A nested schema: a Config class or an instance of one.
IsNestedSchema(value) == value.t = "type" \/ value.t \in ClassNames

\* The declared data fields of class c.
Fields(c) ==
    {DeclaredItems(c)[i] : i \in
        {j \in 1..Len(DeclaredItems(c)) :
            /\ IsPublic(DeclaredItems(c)[j])
            /\ ~IsNestedSchema(DeclaredItems(c)[j].value)}}

NestedFields(c) ==
    {DeclaredItems(c)[i] : i \in
        {j \in 1..Len(DeclaredItems(c)) :
            /\ IsPublic(DeclaredItems(c)[j])
            /\ IsNestedSchema(DeclaredItems(c)[j].value)}}

\* The key the naming rule derives from (fieldName, prefix).
DerivedKey(prefix, name) ==
    IF prefix.t # "NoneType" /\ prefix.r # <<>>
    THEN upper(prefix.r \o <<"_">> \o name)
    ELSE upper(name)

\* Key, default and transform of a declared field under the given prefix.
FieldKey(prefix, f) ==
    IF f.value.t = "Variable" THEN DESCRIPTORS[f.value.r].name
    ELSE DerivedKey(prefix, f.name)

FieldDefault(f) ==
    IF f.value.t = "Variable" THEN DESCRIPTORS[f.value.r].default
    ELSE f.value

FieldTransform(f) ==
    IF f.value.t = "Variable" THEN DESCRIPTORS[f.value.r].transform
    ELSE "cast"

FieldType(c, f) == AnnotationOf(TypeHints(program, c), f.name)

\* The entries the last pass logged for attribute name.
Entries(name) ==
    {last.lookups[i] : i \in
        {j \in 1..Len(last.lookups) : last.lookups[j].attr = name}}

PassRan == last.passes = 1

----------------------------------------------------------------------------
(* C1 - C6: the resolution of one field                                    *)

\* C1: on any resolution pass, a field whose lookup key is present in the
\* source is written to the target as transform(rawValue, declaredType);
\* its default plays no part.
C1_PresentKeyIsTransformed ==
    PassRan =>
        \A f \in Fields(last.cls) :
            \A e \in Entries(f.name) :
                LET key == FieldKey(last.options.prefix, f) IN
                key \in DOMAIN environ =>
                    LET t == Transform(FieldTransform(f), environ[key],
                                       FieldType(last.cls, f))
                    IN t.exc = "none" =>
                        /\ e.out = t
                        /\ GetAttr(last.attrs, f.name) = t.val

\* C2: every resolution pass over a schema with a field that has no
\* default and whose lookup key is absent fails with MissingRequiredValue
\* (AttributeError) at that field.
C2_MissingRequiredFails ==
    PassRan =>
        \A f \in Fields(last.cls) :
            (/\ FieldDefault(f) = _NO_DEFAULT
             /\ FieldKey(last.options.prefix, f) \notin DOMAIN environ)
            => /\ last.out.exc # "none"
               /\ \A e \in Entries(f.name) : e.out.exc = "AttributeError"

\* C3: a field with a default D (not _NO_DEFAULT) whose lookup key is
\* absent resolves to D itself, and the transform is not called.
C3_DefaultReturnedUncoerced ==
    PassRan =>
        \A f \in Fields(last.cls) :
            (/\ FieldDefault(f) # _NO_DEFAULT
             /\ FieldKey(last.options.prefix, f) \notin DOMAIN environ)
            => \A e \in Entries(f.name) :
                  /\ e.transform = "none"
                  /\ e.out = Return(FieldDefault(f))
                  /\ GetAttr(last.attrs, f.name) = FieldDefault(f)

\* C4: when the key is present and the transform raises, the field fails
\* with InvalidValue (ValueError) naming the key and carrying the cause;
\* no other kind of error escapes.
C4_TransformFailureIsInvalidValue ==
    PassRan =>
        \A i \in 1..Len(last.lookups) :
            LET e == last.lookups[i] IN
            (/\ e.key \in DOMAIN environ
             /\ Transform(e.transform, environ[e.key], e.wanted).exc # "none")
            => /\ e.out.exc = "ValueError"
               /\ e.out.key = e.key
               /\ e.out.cause =
                    Transform(e.transform, environ[e.key], e.wanted).exc
               /\ last.out = e.out

\* C5: a field declared with an explicit descriptor whose key K1 differs
\* from the derived key K2 is looked up under K1 only, on every pass.
C5_ExplicitKeyOnly ==
    PassRan =>
        \A f \in Fields(last.cls) :
            (/\ f.value.t = "Variable"
             /\ FieldKey(last.options.prefix, f)
                    # DerivedKey(last.options.prefix, f.name))
            => \A e \in Entries(f.name) :
                  e.key = FieldKey(last.options.prefix, f)

\* C6: a field whose declared value is a nested schema is never resolved
\* as data: no lookup, no coercion, the target keeps the same nested
\* schema; the nested schema derives its keys from its own prefix.
C6_NestedSchemaPassthrough ==
    PassRan =>
        /\ \A f \in NestedFields(last.cls) :
              /\ Entries(f.name) = {}
              /\ HasAttr(last.attrs, f.name)
                    => GetAttr(last.attrs, f.name) = f.value
        /\ last.cls = "Nested" =>
              \A i \in 1..Len(last.lookups) :
                  last.lookups[i].key = <<"N","E","S","T","E","D","_","X">>

----------------------------------------------------------------------------
(* C7 - C10: the lifecycle                                                 *)

\* vars(cls) as the class statement leaves it when no pass has run.
DeclaredVars(c) ==
    SetAttr(Body(program, c), OptionsName, Val("_Options", "options"))

\* The log of the last pass was read from the source as it is now, and the
\* values it produced are the ones on the target.
LogMatchesSource ==
    \A i \in 1..Len(last.lookups) :
        LET e == last.lookups[i] IN
        /\ e.found <=> e.key \in DOMAIN environ
        /\ (e.found /\ e.out.exc = "none") =>
              /\ HasAttr(last.attrs, e.attr)
              /\ GetAttr(last.attrs, e.attr) =
                    Transform(e.transform, environ[e.key], e.wanted).val

NoPass == last.passes = 0 /\ last.lookups = <<>> /\ last.out.exc = "none"

C7_State ==
    /\ (/\ last.op = "declare"
        /\ last.options.autoload = "OBJECT"
        /\ last.kwargs.extra = {})
       => /\ NoPass
          /\ classes[last.cls].declared
          /\ classes[last.cls].vars = DeclaredVars(last.cls)
    /\ (last.op = "construct" /\ last.options.autoload = "OBJECT")
       => /\ last.passes = 1
          /\ LogMatchesSource
          /\ last.out.exc = "none" =>
                last.target = 1 /\ BagIn(last.attrs, instances)
          /\ last.out.exc # "none" => last.target = -1

C7_Step ==
    (last'.op = "construct" /\ last'.options.autoload = "OBJECT")
    => /\ classes' = classes
       /\ instances \sqsubseteq instances'
       /\ BagCardinality(instances') <= BagCardinality(instances) + 1

\* C7: under Autoload.OBJECT declaring the schema runs no pass and raises
\* nothing; each construction runs one pass that reads the source as it
\* is then and writes onto the new instance only: the class and the
\* instances that already exist are left as they were.
C7_ObjectModeLoadsPerInstance == []C7_State /\ [][C7_Step]_vars

\* Two instances built around a change of the source hold different values
\* while the class still holds its declared defaults.
C7_Witness ==
    /\ last.op = "construct"
    /\ last.options.autoload = "OBJECT"
    /\ BagCardinality(instances) = 2
    /\ Cardinality(BagToSet(instances)) = 2
    /\ classes["Configuration"].vars = DeclaredVars("Configuration")

C8_State ==
    last.options.autoload = "NEVER" =>
        /\ (last.op = "declare" /\ last.kwargs.extra = {})
           => /\ NoPass
              /\ classes[last.cls].declared
              /\ classes[last.cls].vars = DeclaredVars(last.cls)
        /\ last.op = "construct"
           => NoPass /\ BagIn(<<>>, instances)
        /\ last.op = "load"
           => /\ last.passes = 1
              /\ LogMatchesSource
              /\ last.target = 0 => classes[last.cls].vars = last.attrs
              /\ last.target = 1 => BagIn(last.attrs, instances)

C8_Step ==
    (/\ classes["Configuration"].declared
     /\ classes["Configuration"].options.autoload = "NEVER")
    => /\ classes' # classes
          => /\ last'.op = "load" /\ last'.target = 0
             /\ instances' = instances
       /\ (/\ instances' # instances
           /\ instances' # instances (+) SetToBag({<<>>}))
          => /\ last'.op = "load" /\ last'.target = 1
             /\ classes' = classes

\* C8: under Autoload.NEVER neither declaring the schema nor constructing
\* instances runs a pass; values change only by an explicit load, which
\* writes onto the given target, or onto the class when none is given.
C8_NeverModeLoadsOnlyExplicitly == []C8_State /\ [][C8_Step]_vars

\* An explicit load has resolved values onto the class while an instance
\* built before it exists.
C8_Witness ==
    /\ last.op = "load"
    /\ last.options.autoload = "NEVER"
    /\ last.target = 0
    /\ last.out.exc = "none"
    /\ \E i \in 1..Len(last.lookups) : last.lookups[i].found
    /\ classes["Configuration"].vars # DeclaredVars("Configuration")
    /\ BagIn(<<>>, instances)

C9_State ==
    last.options.autoload = "CLASS" =>
        /\ (/\ last.op = "declare"
            /\ (last.base = "AutoConfig" \/ last.kwargs.extra = {}))
           => /\ last.passes = 1
              /\ last.target = 0
              /\ LogMatchesSource
              /\ instances = EmptyBag
              /\ last.out.exc = "none"
                    => /\ classes[last.cls].declared
                       /\ classes[last.cls].vars = last.attrs
                       /\ \A f \in Fields(last.cls) :
                             /\ HasAttr(last.attrs, f.name)
                             /\ Entries(f.name) # {}
              /\ last.out.exc # "none" => ~classes[last.cls].declared
        /\ last.op = "construct"
           => NoPass /\ BagIn(<<>>, instances)

C9_Step ==
    (/\ classes["Configuration"].declared
     /\ classes["Configuration"].options.autoload = "CLASS")
    => /\ last'.op \in {"none", "construct"} => classes' = classes
       /\ last'.op = "construct" =>
             instances' = instances (+) SetToBag({<<>>})

\* C9: under Autoload.CLASS one pass runs when the schema is declared and
\* writes onto the class before any instance exists; constructing an
\* instance runs no pass, so instances read the values of the class even
\* when the source has changed since.
C9_ClassModeLoadsAtDeclaration == []C9_State /\ [][C9_Step]_vars

\* An instance is built after the source lost the key of a value the class
\* resolved at declaration.
C9_Witness ==
    /\ program = "flat"
    /\ last.op = "construct"
    /\ last.options.autoload = "CLASS"
    /\ last.options.prefix = PrefixNone
    /\ HasAttr(classes["Configuration"].vars, <<"a">>)
    /\ <<"A">> \notin DOMAIN environ
    /\ instances = SetToBag({<<>>})

\* C10: a schema declared through AutoConfig is resolved at declaration
\* whatever autoload the caller passes and every such declaration emits a
\* DeprecationWarning; a required field with an absent key fails the
\* declaration even when Autoload.NEVER was requested.
C10_AutoConfigLoadsAtDeclaration ==
    (last.op = "declare" /\ last.base = "AutoConfig")
    => /\ last.warned
       /\ last.options.autoload = "CLASS"
       /\ last.passes = 1
       /\ last.target = 0
       /\ LogMatchesSource
       /\ last.out.exc = "none"
             => /\ classes[last.cls].declared
                /\ classes[last.cls].options.autoload = "CLASS"
                /\ classes[last.cls].vars = last.attrs
       /\ \A f \in Fields(last.cls) :
             (/\ FieldDefault(f) = _NO_DEFAULT
              /\ FieldKey(last.options.prefix, f) \notin DOMAIN environ)
             => /\ last.out.exc # "none"
                /\ ~classes[last.cls].declared
                /\ \A e \in Entries(f.name) : e.out.exc = "AttributeError"

\* An AutoConfig declared with autoload=Autoload.NEVER fails on a required
\* field whose key is absent.
C10_Witness ==
    /\ last.op = "declare"
    /\ last.base = "AutoConfig"
    /\ last.kwargs.autoload = "NEVER"
    /\ last.warned
    /\ last.out.exc = "AttributeError"

----------------------------------------------------------------------------
(* C11 - C13: options, precedence and the naming rule                      *)

\* The option names the specification documents.
RecognisedOptions ==
    {"prefix", "autoload", "source", "transform", "wanted_type",
     "variable_name"}

\* C11: a declaration that supplies an option name outside the recognised
\* set fails with InvalidOptions (ValueError) while the options are
\* composed: the class does not come to exist, and no field has been looked
\* up or written when the error is raised.
C11_UnknownOptionIsInvalidOptions ==
    (last.op = "declare" /\ last.kwargs.extra \ RecognisedOptions # {})
    => /\ last.out.exc = "ValueError"
       /\ last.passes = 0
       /\ last.lookups = <<>>
       /\ last.target = -1
       /\ ~classes[last.cls].declared

\* Whether the descriptor of a declared field sets its transform or its
\* source itself (config.py:137-138 make cast and os.environ the values
\* of a descriptor that names none).
SetsTransform(f) ==
    f.value.t = "Variable" /\ DESCRIPTORS[f.value.r].transform # "cast"

SetsSource(f) ==
    f.value.t = "Variable" /\ DESCRIPTORS[f.value.r].source # "os.environ"

\* What the schema's Options give for the transform and the source: the
\* value of the declaration when it passes one, else the process-wide one.
OptionsTransform(kw) ==
    IF "transform" \in kw.extra THEN "options.transform" ELSE "cast"

OptionsSource(kw) ==
    IF "source" \in kw.extra THEN "options.source" ELSE "os.environ"

\* C12: at declaration the transform and the source of each field are the
\* ones its descriptor sets and, when the descriptor sets none or there is
\* no descriptor, the ones the declaration passes as transform=... and
\* source=..., else the process-wide defaults (cast, os.environ).
C12_OptionsFillUnsetSourceAndTransform ==
    (last.op = "declare" /\ last.kwargs.extra \subseteq RecognisedOptions)
    => /\ last.out.exc # "TypeError"
       /\ \A f \in Fields(last.cls) :
             \A e \in Entries(f.name) :
                /\ e.source = IF SetsSource(f)
                              THEN DESCRIPTORS[f.value.r].source
                              ELSE OptionsSource(last.kwargs)
                /\ e.found =>
                      e.transform = IF SetsTransform(f)
                                    THEN DESCRIPTORS[f.value.r].transform
                                    ELSE OptionsTransform(last.kwargs)

\* The declared fields that have no explicit descriptor.
ImplicitFields(c) == {f \in Fields(c) : f.value.t # "Variable"}

\* C13 as stated: the key of an implicit field is upper(prefix + "_" +
\* fieldName) whenever the schema was given a prefix, upper(fieldName)
\* when it was given none.
C13_KeyPrefixedWheneverPrefixGiven ==
    PassRan =>
        \A f \in ImplicitFields(last.cls) :
            \A e \in Entries(f.name) :
                e.key = IF last.options.prefix.t = "str"
                        THEN upper(last.options.prefix.r \o <<"_">> \o f.name)
                        ELSE upper(f.name)

\* C13, amended: the key of an implicit field is upper(prefix + "_" +
\* fieldName) when the prefix is a non-empty string and upper(fieldName)
\* when the prefix is None or empty, on every pass, whatever the type, the
\* default and the content of the source.
C13_ImplicitKeyIsDerived ==
    PassRan =>
        \A f \in ImplicitFields(last.cls) :
            \A e \in Entries(f.name) :
                e.key = IF /\ last.options.prefix.t = "str"
                           /\ last.options.prefix.r # <<>>
                        THEN upper(last.options.prefix.r \o <<"_">> \o f.name)
                        ELSE upper(f.name)

\* Passes with a non-empty prefix have looked an implicit field up under
\* the prefixed key with different types and defaults, with the key
\* present and absent.
C13_Witness ==
    /\ program = "flat"
    /\ PassRan
    /\ last.options.prefix = PrefixStr(<<"a", "p", "p">>)
    /\ \E e \in Entries(<<"a">>) :
          /\ e.key = <<"A", "P", "P", "_", "A">>
          /\ e.found
          /\ e.wanted = "int"
    /\ \E e \in Entries(<<"b">>) :
          /\ e.key = <<"A", "P", "P", "_", "B">>
          /\ ~e.found
          /\ e.wanted = "bool"
          /\ e.default # _NO_DEFAULT

----------------------------------------------------------------------------
(* C14, C18: the coercion                                                  *)

\* C14: for a chain of N >= 0 nested NewType aliases over a base type,
\* generic containers included, the unwrapping loop of cast ends after N
\* iterations and the outcome for any raw value is the outcome of cast with
\* the base type itself.
C14_AliasChainCoercesAsBase ==
    call.base # "none" =>
        /\ call.trace.steps = call.depth
        /\ call.trace.out = cast(call.representation, call.base)

\* A chain of two aliases or more over List[int] gives the parsed list.
C14_Witness ==
    /\ call.base = "typing.List[int]"
    /\ call.depth >= 2
    /\ call.representation = Val("str", "[1, 2]")
    /\ call.trace.out = Return(Val("list", "[1, 2]"))

\* The real type of each base: a typing type and a subscripted generic
\* stand for their container, every other type for itself.
ResolvedType ==
    [b \in AliasBases |->
        CASE b \in {"typing.List", "typing.List[int]", "typing.List[Id]"} ->
                "list"
          [] b \in {"typing.Dict", "typing.Dict[str, str]"} -> "dict"
          [] b = "typing.Set" -> "set"
          [] b = "typing.Tuple" -> "tuple"
          [] b = "typing.FrozenSet" -> "frozenset"
          [] b = "typing.Counter" -> "Counter"
          [] b = "typing.Deque" -> "deque"
          [] b = "typing.AnyStr" -> "str"
          [] b = "typing.ByteString" -> "bytes"
          [] OTHER -> b]

\* C18: cast dispatches on the resolved type.  The raw value is parsed as
\* a literal, and the parsed value given to the constructor, exactly when
\* the resolved type is bool, list, set, tuple or dict and the raw value is
\* text (a failed parse is the outcome, the constructor is not called); in
\* every other case the constructor is called on the raw value itself.
C18_DispatchOnResolvedType ==
    call.base # "none" =>
        LET rt == ResolvedType[call.base]
            raw == call.representation
            tr == call.trace
            parses == /\ rt \in {"bool", "list", "set", "tuple", "dict"}
                      /\ raw.t = "str"
        IN /\ tr.real = rt
           /\ tr.parsed <=> parses
           /\ parses =>
                 LET parsed == literal_eval(raw.r) IN
                 IF parsed.exc = "none"
                 THEN /\ tr.called
                      /\ tr.arg = parsed.val
                      /\ tr.out = Construct(rt, parsed.val)
                 ELSE ~tr.called /\ tr.out = parsed
           /\ ~parses =>
                 /\ tr.called
                 /\ tr.arg = raw
                 /\ tr.out = Construct(rt, raw)

\* The text of a list given for a typing.FrozenSet alias is not parsed:
\* the result is the set of its characters.
C18_Witness ==
    /\ call.base = "typing.FrozenSet"
    /\ call.depth = 1
    /\ call.representation = Val("str", "[1, 2]")
    /\ ~call.trace.parsed
    /\ call.trace.out =
          Return(Val("frozenset", "frozenset({' ', ',', '1', '2', '[', ']'})"))

----------------------------------------------------------------------------
(* C15, C16, C19: a whole pass                                             *)

\* The value of attribute name in a __dict__, None standing for absence.
ValueIn(attrs, name) ==
    IF HasAttr(attrs, name) THEN <<GetAttr(attrs, name)>> ELSE <<>>

\* The names a pass may touch: those of the target and of the schema.
TouchableNames ==
    {last.before[i].name : i \in 1..Len(last.before)}
    \cup {last.attrs[i].name : i \in 1..Len(last.attrs)}
    \cup {DeclaredItems(last.cls)[i].name :
            i \in 1..Len(DeclaredItems(last.cls))}

\* The names the last pass resolved to a value.
Resolved ==
    {last.lookups[i].attr :
        i \in {j \in 1..Len(last.lookups) : last.lookups[j].out.exc = "none"}}

\* A declared Config instance is copied onto the target, not resolved.
PassedThrough ==
    {f.name : f \in {g \in NestedFields(last.cls) : g.value.t \in ClassNames}}

\* C15: a pass is fail-fast.  When a field raises MissingRequiredValue
\* (AttributeError) or InvalidValue (ValueError) the pass ends there: the
\* failing field is the last one looked up and its error is the outcome of
\* the call, every field before it succeeded, and the failing field and the
\* fields after it are neither looked up nor written; a failed declaration
\* binds no class and a failed construction returns no instance.
C15_FailFast ==
    (PassRan /\ last.out.exc \in {"AttributeError", "ValueError"}) =>
        LET n == Len(last.lookups) IN
        /\ n >= 1
        /\ last.lookups[n].out = last.out
        /\ \A i \in 1..(n - 1) : last.lookups[i].out.exc = "none"
        /\ \A name \in TouchableNames \ (Resolved \cup PassedThrough) :
              ValueIn(last.attrs, name) = ValueIn(last.before, name)
        /\ last.op = "declare" => ~classes[last.cls].declared
        /\ last.op = "construct" => last.target = -1

\* A pass failed on its second field or later, after writing the first.
C15_Witness ==
    /\ PassRan
    /\ last.out.exc \in {"AttributeError", "ValueError"}
    /\ Len(last.lookups) >= 2
    /\ last.attrs # last.before
    /\ \E f \in Fields(last.cls) : Entries(f.name) # {}

C16_State ==
    (last.op = "load" /\ last.out.exc = "none") =>
        \A f \in Fields(last.cls) :
            LET key == FieldKey(last.options.prefix, f) IN
            key \in DOMAIN environ =>
                LET t == Transform(FieldTransform(f), environ[key],
                                   FieldType(last.cls, f))
                IN t.exc = "none" => ValueIn(last.attrs, f.name) = <<t.val>>

C16_Step ==
    (/\ last.op = "load"
     /\ last'.op = "load"
     /\ last'.target = last.target
     /\ last'.before = last.attrs
     /\ environ' = environ)
    => /\ last'.attrs = last.attrs
       /\ last'.out = last.out

\* C16: with the source unchanged, a second load onto the same target
\* leaves it with the field values of the first and fails exactly when the
\* first does; after the source has changed, a load leaves on the target
\* the values of the source as it is then.
C16_LoadIsIdempotent == []C16_State /\ [][C16_Step]_vars

\* The position of a name in a sequence of attributes, 0 when absent.
Pos(attrs, name) ==
    IF HasAttr(attrs, name)
    THEN CHOOSE i \in 1..Len(attrs) : attrs[i].name = name
    ELSE 0

\* The order the claim gives: the names the class body gives a value or a
\* descriptor, in declaration order, then the names that are only
\* annotated, in declaration order.
ClaimedOrder(c) ==
    LET OnlyAnnotated(a) == ~HasAttr(Body(program, c), a.name)
    IN Body(program, c) \o SelectSeq(Annotations(program, c), OnlyAnnotated)

\* C19: a pass visits the fields that have a value or a descriptor first,
\* in declaration order, and the annotation-only fields after them; when an
\* explicit load onto an existing target fails, the fields resolved before
\* the failing one hold their new values on the target and every other
\* attribute of the target is as it was before the call.
C19_OrderedAndNotRolledBack ==
    /\ PassRan =>
          \A i, j \in 1..Len(last.lookups) :
              i < j => Pos(ClaimedOrder(last.cls), last.lookups[i].attr)
                       < Pos(ClaimedOrder(last.cls), last.lookups[j].attr)
    /\ (last.op = "load" /\ last.out.exc # "none") =>
          /\ \A i \in 1..Len(last.lookups) :
                last.lookups[i].out.exc = "none" =>
                    ValueIn(last.attrs, last.lookups[i].attr)
                        = <<last.lookups[i].out.val>>
          /\ \A name \in TouchableNames \ (Resolved \cup PassedThrough) :
                ValueIn(last.attrs, name) = ValueIn(last.before, name)
          /\ last.target = 0 => classes[last.cls].vars = last.attrs
          /\ last.target = 1 => BagIn(last.attrs, instances)

\* A load onto an instance wrote b, which has a default, and then failed on
\* a, which is only annotated and declared before b.
C19_Witness ==
    /\ program = "flat"
    /\ last.op = "load"
    /\ last.target = 1
    /\ last.out.exc = "AttributeError"
    /\ last.out.key = <<"A">>
    /\ last.before = <<>>
    /\ last.attrs = <<Attr(<<"b">>, Val("bool", "True"))>>
    /\ BagIn(last.attrs, instances)

----------------------------------------------------------------------------
(* C17: a pass is not atomic                                               *)

\* The logged lookup e is what the field gives against the source env.
MatchesSource(e, env) ==
    /\ e.found <=> e.key \in DOMAIN env
    /\ e.out.exc = "none" =>
          e.out.val = IF e.key \in DOMAIN env
                      THEN Transform(e.transform, env[e.key], e.wanted).val
                      ELSE e.default

C17_State ==
    running.active =>
        \A i \in 1..Len(running.acc.lookups) :
            LET e == running.acc.lookups[i] IN
            /\ \E env \in running.seen : MatchesSource(e, env)
            /\ e.out.exc = "none" =>
                  ValueIn(running.acc.attrs, e.attr) = <<e.out.val>>

C17_Step ==
    (/\ running.active
     /\ running'.active
     /\ Len(running'.acc.lookups) = Len(running.acc.lookups) + 1)
    => MatchesSource(running'.acc.lookups[Len(running'.acc.lookups)], environ)

\* C17: while threads write to the source during a pass, the value of each
\* field is the one the source gives at the moment of that field's own
\* lookup, and is on the target.
C17_EachFieldReadsAtItsOwnLookup == []C17_State /\ [][C17_Step]_vars

\* The torn snapshot: a pass over two fields has ended without error and
\* the values it resolved are together what no content the source ever had
\* gives.
C17_Witness ==
    /\ running.active
    /\ running.i > Len(running.attribute_dict)
    /\ running.acc.out.exc = "none"
    /\ Len(running.acc.lookups) >= 2
    /\ \A env \in running.seen :
          \E i \in 1..Len(running.acc.lookups) :
              ~MatchesSource(running.acc.lookups[i], env)

====
